---- MODULE Spec2Model ----
(***************************************************************************)
(* Model of the vector-index layer of cyrag (src/src/qdrant/collection.py) *)
(* on top of a Qdrant backend.  The repository code is a thin handler      *)
(* around the backend client: each handler issues a fixed sequence of      *)
(* backend requests and lets any backend exception propagate.  The state   *)
(* is the one named collection of the backend (COLLECTION_NAME) and the    *)
(* record of the last handler call: its arguments, the backend requests it *)
(* issued, the value it returned and the exception it raised.  The process *)
(* variable is the state of the client singleton of src/src/qdrant/         *)
(* client.py and of the threads that ask it for the client.                *)
(*                                                                         *)
(* Scores are cosine similarities in hundredths (0.95 is 95).  Optional    *)
(* values are sequences of length 0 or 1 (None is << >>).  A Python dict   *)
(* is a function from its keys; None and {} for filter_params are both the *)
(* empty function, which the code treats alike (`if filter_params:`).      *)
(***************************************************************************)
EXTENDS Integers, Sequences, FiniteSets, TLC

VARIABLES backend, last, process

vars == <<backend, last, process>>

----------------------------------------------------------------------------
(* Bounds of the model *)

MaxPoints == 3
MaxTopK == 2
MaxBatchSize == 2

----------------------------------------------------------------------------
(* Data the handlers are called with *)

None == << >>

Some(x) == <<x>>

EmptyDict == << >>

\* Payloads of ingested chunks, as scripts/ingest.py builds them.
PayloadA == ("text" :> "t1") @@ ("source" :> "docs/a.txt") @@ ("product" :> "RCP") @@ ("type" :> "qa")

PayloadB == ("text" :> "t2") @@ ("source" :> "docs/b.txt") @@ ("product" :> "RCP")

PayloadC == ("text" :> "t3") @@ ("source" :> "docs/a.txt") @@ ("product" :> "RIO") @@ ("type" :> "qa")

\* Embedding vectors are opaque; the embedder gives all of them one dimension.
Vectors == {"va", "vb", "vc"}

QueryVectors == {"qa", "qb"}

EmbeddingDim == 2

\* The ingested corpora: a cyclic pattern of (vector, payload) pairs each, so
\* that a corpus of any length exists.  Corpus 2 repeats a vector, which
\* gives stored points of equal similarity.
CorpusPattern ==
    << << [vector |-> "va", payload |-> PayloadA],
          [vector |-> "vb", payload |-> PayloadB],
          [vector |-> "vc", payload |-> PayloadC] >>,
       << [vector |-> "va", payload |-> PayloadC],
          [vector |-> "va", payload |-> PayloadA],
          [vector |-> "vb", payload |-> PayloadB],
          [vector |-> "va", payload |-> PayloadB] >> >>

Corpus(c, n) ==
    [i \in 1..n |-> CorpusPattern[c][((i - 1) % Len(CorpusPattern[c])) + 1]]

VectorsOf(corpus) == [i \in 1..Len(corpus) |-> corpus[i].vector]

PayloadsOf(corpus) == [i \in 1..Len(corpus) |-> corpus[i].payload]

VectorSizes == {0 - 1, 0, EmbeddingDim, EmbeddingDim + 1}

Filters ==
    { EmptyDict,
      ("product" :> "RCP"),
      ("type" :> "qa"),
      ("product" :> "RCP") @@ ("type" :> "qa"),
      ("source" :> "docs/a.txt"),
      ("product" :> "RIO") @@ ("source" :> "docs/b.txt") }

Thresholds == {None, Some(70), Some(90)}

----------------------------------------------------------------------------
(* The backend: one named collection *)

IndexedFields == {"product", "type"}

NoCollection ==
    [exists |-> FALSE, size |-> 0, distance |-> "none", indexes |-> {}, points |-> << >>]

\* Exceptions of the backend client: a request the server rejects, and a
\* request that does not reach the server.
Rejected == [type |-> "UnexpectedResponse", batch |-> None]

Unreachable == [type |-> "ResponseHandlingException", batch |-> None]

Call(name, arg) == [call |-> name, arg |-> arg]

NoArgs == << >>

\* What a handler call remembers of the collection it started from.
Summary(b) ==
    [exists |-> b.exists, size |-> b.size, indexes |-> b.indexes,
     ids |-> DOMAIN b.points]

VectorDim(v) == EmbeddingDim

\* True when the server refuses the request in backend state b.
Rejects(b, req) ==
    CASE req.call = "get_collections" -> FALSE
      [] req.call = "delete_collection" -> ~b.exists
      [] req.call = "create_collection" -> b.exists \/ req.arg < 1
      [] req.call = "create_payload_index" -> ~b.exists
      [] req.call = "upsert" ->
            \/ ~b.exists
            \/ \E i \in 1..Len(req.arg) : VectorDim(req.arg[i].vector) # b.size
      [] req.call = "get_collection" -> ~b.exists
      [] req.call = "search" -> ~b.exists

UpsertPoints(points, batch) ==
    LET ids == {batch[i].id : i \in 1..Len(batch)}
        Latest(id) == CHOOSE i \in 1..Len(batch) :
                          /\ batch[i].id = id
                          /\ \A j \in 1..Len(batch) : batch[j].id = id => j <= i
    IN  [id \in (DOMAIN points) \cup ids |->
            IF id \in ids
            THEN [vector |-> batch[Latest(id)].vector,
                  payload |-> batch[Latest(id)].payload]
            ELSE points[id]]

\* The backend state after the server has executed the request.
Apply(b, req) ==
    CASE req.call = "get_collections" -> b
      [] req.call = "delete_collection" -> NoCollection
      [] req.call = "create_collection" ->
            [exists |-> TRUE, size |-> req.arg, distance |-> "Cosine",
             indexes |-> {}, points |-> << >>]
      [] req.call = "create_payload_index" ->
            [b EXCEPT !.indexes = @ \cup {req.arg}]
      [] req.call = "upsert" ->
            [b EXCEPT !.points = UpsertPoints(@, req.arg)]
      [] req.call = "get_collection" -> b
      [] req.call = "search" -> b

\* A handler issues the requests of plan in order and stops at the first one
\* that raises: request number fault does not reach the server (fault = 0:
\* every request reaches it), and the server may reject a request.
RECURSIVE Run(_, _, _, _)
Run(b, plan, i, fault) ==
    IF i > Len(plan)
    THEN [backend |-> b, calls |-> plan, raised |-> None]
    ELSE IF i = fault
    THEN [backend |-> b, calls |-> SubSeq(plan, 1, i), raised |-> Some(Unreachable)]
    ELSE IF Rejects(b, plan[i])
    THEN [backend |-> b, calls |-> SubSeq(plan, 1, i), raised |-> Some(Rejected)]
    ELSE Run(Apply(b, plan[i]), plan, i + 1, fault)

\* The client singleton after a first get_qdrant_client() call that found
\* the backend: one manager object holding one client, no thread inside.
Connected ==
    [instance |-> Some(1), objects |-> <<[client |-> Some(1)]>>, connections |-> 1,
     test_failed |-> FALSE, returned |-> {1}, threads |-> << >>]

Init ==
    /\ backend = NoCollection
    /\ process = Connected
    /\ last = [op |-> "init", args |-> NoArgs, pre |-> Summary(NoCollection),
               calls |-> << >>, result |-> << >>, raised |-> None]

----------------------------------------------------------------------------
(* create_collection *)

\* Variants of CreatePlan that mistreat the recreate flag.
CreatePlanIgnoresRecreate(present, vector_size, recreate) ==
    (IF present THEN <<Call("delete_collection", NoArgs)>> ELSE << >>)
    \o << Call("create_collection", vector_size),
          Call("create_payload_index", "product"),
          Call("create_payload_index", "type") >>

CreatePlanNeverRecreates(present, vector_size, recreate) ==
    IF present
    THEN << >>
    ELSE << Call("create_collection", vector_size),
            Call("create_payload_index", "product"),
            Call("create_payload_index", "type") >>

\* The requests create_collection issues after get_collections.
CreatePlan(present, vector_size, recreate) ==
    IF present /\ ~recreate
    THEN << >>
    ELSE (IF present THEN <<Call("delete_collection", NoArgs)>> ELSE << >>)
         \o << Call("create_collection", vector_size),
               Call("create_payload_index", "product"),
               Call("create_payload_index", "type") >>

\* Variant of CreateCollection that validates vector_size before anything
\* else and raises a ConfigurationError of its own.
CreateCollectionValidatesSize(vector_size, recreate, fault) ==
    LET present == backend.exists
        plan == <<Call("get_collections", NoArgs)>>
                    \o CreatePlan(present, vector_size, recreate)
        run == IF vector_size <= 0
               THEN [backend |-> backend, calls |-> << >>,
                     raised |-> Some([type |-> "ConfigurationError", batch |-> None])]
               ELSE Run(backend, plan, 1, fault)
    IN  /\ fault # 1
        /\ fault <= Len(plan)
        /\ backend' = run.backend
        /\ last' = [op |-> "create_collection",
                    args |-> [vector_size |-> vector_size, recreate |-> recreate],
                    pre |-> Summary(backend),
                    calls |-> run.calls, result |-> << >>, raised |-> run.raised]

\* The existence check of create_collection reads the collection list of a
\* client whose connection was tested with that same request.
CreateCollection(vector_size, recreate, fault) ==
    LET present == backend.exists
        plan == <<Call("get_collections", NoArgs)>>
                    \o CreatePlan(present, vector_size, recreate)
        run == Run(backend, plan, 1, fault)
    IN  /\ fault # 1
        /\ fault <= Len(plan)
        /\ backend' = run.backend
        /\ last' = [op |-> "create_collection",
                    args |-> [vector_size |-> vector_size, recreate |-> recreate],
                    pre |-> Summary(backend),
                    calls |-> run.calls, result |-> << >>, raised |-> run.raised]

----------------------------------------------------------------------------
(* store_embeddings *)

Min(a, b) == IF a < b THEN a ELSE b

\* enumerate(zip(vectors, payloads)): one PointStruct per pair, id = position.
PreparePoints(vectors, payloads) ==
    [i \in 1..Min(Len(vectors), Len(payloads)) |->
        [id |-> i - 1, vector |-> vectors[i], payload |-> payloads[i]]]

NumBatches(n, batch_size) == (n + batch_size - 1) \div batch_size

\* A variant of Batch whose slices run one point into the next slice.
BatchOverlapping(points, batch_size, k) ==
    SubSeq(points, k * batch_size + 1, Min((k + 1) * batch_size + 1, Len(points)))

\* points[i:i+batch_size] for the k-th value i of range(0, len(points), batch_size)
Batch(points, batch_size, k) ==
    SubSeq(points, k * batch_size + 1, Min((k + 1) * batch_size, Len(points)))

StorePlan(points, batch_size) ==
    [k \in 1..NumBatches(Len(points), batch_size) |->
        Call("upsert", Batch(points, batch_size, k - 1))]
    \o <<Call("get_collection", NoArgs)>>

\* Variant of StoreEmbeddings that undoes the committed batches on failure.
StoreEmbeddingsRollsBack(vectors, payloads, batch_size, fault) ==
    LET points == PreparePoints(vectors, payloads)
        plan == StorePlan(points, batch_size)
        run == Run(backend, plan, 1, fault)
    IN  /\ fault <= Len(plan)
        /\ backend' = IF run.raised = None THEN run.backend ELSE backend
        /\ last' = [op |-> "store_embeddings",
                    args |-> [vectors |-> vectors, payloads |-> payloads,
                              batch_size |-> batch_size],
                    pre |-> Summary(backend),
                    calls |-> run.calls, result |-> << >>, raised |-> run.raised]

\* Variant of StoreEmbeddings that wraps a failure in an IngestionError
\* carrying the index of the failed request.
StoreEmbeddingsWrapsError(vectors, payloads, batch_size, fault) ==
    LET points == PreparePoints(vectors, payloads)
        plan == StorePlan(points, batch_size)
        run == Run(backend, plan, 1, fault)
    IN  /\ fault <= Len(plan)
        /\ backend' = run.backend
        /\ last' = [op |-> "store_embeddings",
                    args |-> [vectors |-> vectors, payloads |-> payloads,
                              batch_size |-> batch_size],
                    pre |-> Summary(backend),
                    calls |-> run.calls, result |-> << >>,
                    raised |-> IF run.raised = None THEN None
                               ELSE Some([type |-> "IngestionError",
                                          batch |-> Some(Len(run.calls) - 1)])]

StoreEmbeddings(vectors, payloads, batch_size, fault) ==
    LET points == PreparePoints(vectors, payloads)
        plan == StorePlan(points, batch_size)
        run == Run(backend, plan, 1, fault)
    IN  /\ fault <= Len(plan)
        /\ backend' = run.backend
        /\ last' = [op |-> "store_embeddings",
                    args |-> [vectors |-> vectors, payloads |-> payloads,
                              batch_size |-> batch_size],
                    pre |-> Summary(backend),
                    calls |-> run.calls, result |-> << >>, raised |-> run.raised]

----------------------------------------------------------------------------
(* search_vectors *)

\* Cosine similarity of a query vector and a stored vector, in hundredths.
Similarity(q, v) ==
    CASE q = "qa" /\ v = "va" -> 95
      [] q = "qa" /\ v = "vb" -> 72
      [] q = "qa" /\ v = "vc" -> 65
      [] q = "qb" /\ v = "va" -> 40
      [] q = "qb" /\ v = "vb" -> 90
      [] q = "qb" /\ v = "vc" -> 90

\* Variants of SearchParams with a slip in one keyword argument.
SearchParamsDropsThreshold(query_vector, filter_params, top_k, score_threshold) ==
    [query_vector |-> query_vector,
     limit |-> top_k,
     query_filter |->
        IF filter_params # EmptyDict
        THEN Some([must |-> {[key |-> k, value |-> filter_params[k]] :
                                k \in DOMAIN filter_params}])
        ELSE None,
     score_threshold |-> None]

SearchParamsLimitOffByOne(query_vector, filter_params, top_k, score_threshold) ==
    [query_vector |-> query_vector,
     limit |-> top_k + 1,
     query_filter |->
        IF filter_params # EmptyDict
        THEN Some([must |-> {[key |-> k, value |-> filter_params[k]] :
                                k \in DOMAIN filter_params}])
        ELSE None,
     score_threshold |->
        IF score_threshold # None THEN Some(score_threshold[1]) ELSE None]

SearchParamsFirstConditionOnly(query_vector, filter_params, top_k, score_threshold) ==
    [query_vector |-> query_vector,
     limit |-> top_k,
     query_filter |->
        IF filter_params # EmptyDict
        THEN Some([must |-> {[key |-> k, value |-> filter_params[k]] :
                                k \in {CHOOSE k0 \in DOMAIN filter_params : TRUE}}])
        ELSE None,
     score_threshold |->
        IF score_threshold # None THEN Some(score_threshold[1]) ELSE None]

SearchParamsIndexedKeysOnly(query_vector, filter_params, top_k, score_threshold) ==
    [query_vector |-> query_vector,
     limit |-> top_k,
     query_filter |->
        IF filter_params # EmptyDict
        THEN Some([must |-> {[key |-> k, value |-> filter_params[k]] :
                                k \in (DOMAIN filter_params) \cap {"product", "type"}}])
        ELSE None,
     score_threshold |->
        IF score_threshold # None THEN Some(score_threshold[1]) ELSE None]

\* The keyword arguments search_vectors builds for client.search.
SearchParams(query_vector, filter_params, top_k, score_threshold) ==
    [query_vector |-> query_vector,
     limit |-> top_k,
     query_filter |->
        IF filter_params # EmptyDict
        THEN Some([must |-> {[key |-> k, value |-> filter_params[k]] :
                                k \in DOMAIN filter_params}])
        ELSE None,
     score_threshold |->
        IF score_threshold # None THEN Some(score_threshold[1]) ELSE None]

\* FieldCondition(key, MatchValue(value)) on a stored payload.
FieldMatches(payload, cond) ==
    cond.key \in DOMAIN payload /\ payload[cond.key] = cond.value

FilterAccepts(payload, query_filter) ==
    query_filter = None
    \/ \A cond \in query_filter[1].must : FieldMatches(payload, cond)

ScoreAccepts(score, score_threshold) ==
    score_threshold = None \/ score >= score_threshold[1]

Qualifying(points, params) ==
    {id \in DOMAIN points :
        /\ FilterAccepts(points[id].payload, params.query_filter)
        /\ ScoreAccepts(Similarity(params.query_vector, points[id].vector),
                        params.score_threshold)}

\* The answers the server may give to a search: limit of the qualifying
\* points (all of them when there are fewer), best first, none left out that
\* beats a returned one.  The server fixes no order among equal scores.
SearchAnswers(points, params) ==
    LET Q == Qualifying(points, params)
        k == Min(params.limit, Cardinality(Q))
        Sc(id) == Similarity(params.query_vector, points[id].vector)
    IN  {s \in [1..k -> Q] :
            /\ \A i, j \in 1..k : i < j => s[i] # s[j] /\ Sc(s[i]) >= Sc(s[j])
            /\ \A id \in Q : (\A i \in 1..k : s[i] # id) =>
                                \A i \in 1..k : Sc(s[i]) >= Sc(id)}

ScoredPoint(points, params, id) ==
    [id |-> id,
     score |-> Similarity(params.query_vector, points[id].vector),
     payload |-> points[id].payload]

\* Variant of FormatResults that builds the list back to front.
FormatResultsReversed(points, params, answer) ==
    [i \in 1..Len(answer) |-> ScoredPoint(points, params, answer[Len(answer) + 1 - i])]

\* The list of dicts search_vectors builds from the server's answer.
FormatResults(points, params, answer) ==
    [i \in 1..Len(answer) |-> ScoredPoint(points, params, answer[i])]

SearchVectors(query_vector, filter_params, top_k, score_threshold, fault) ==
    LET params == SearchParams(query_vector, filter_params, top_k, score_threshold)
        plan == <<Call("search", params)>>
        run == Run(backend, plan, 1, fault)
    IN  /\ fault <= Len(plan)
        /\ backend' = run.backend
        /\ \E answer \in (IF run.raised = None
                          THEN SearchAnswers(backend.points, params)
                          ELSE {<< >>}) :
              last' = [op |-> "search_vectors",
                       args |-> [query_vector |-> query_vector,
                                 filter_params |-> filter_params,
                                 top_k |-> top_k,
                                 score_threshold |-> score_threshold],
                       pre |-> Summary(backend),
                       calls |-> run.calls,
                       result |-> FormatResults(backend.points, params, answer),
                       raised |-> run.raised]

----------------------------------------------------------------------------
(* The program: any handler, any arguments, any backend fault *)

Faults == 0..(MaxPoints + 1)

DoCreateCollection ==
    /\ \E vector_size \in VectorSizes, recreate \in BOOLEAN, fault \in Faults :
          CreateCollection(vector_size, recreate, fault)
    /\ UNCHANGED process

DoStoreEmbeddings ==
    /\ \E c \in 1..Len(CorpusPattern), n \in 0..MaxPoints,
          batch_size \in 1..MaxBatchSize, fault \in Faults :
          StoreEmbeddings(VectorsOf(Corpus(c, n)), PayloadsOf(Corpus(c, n)),
                          batch_size, fault)
    /\ UNCHANGED process

DoSearchVectors ==
    /\ \E query_vector \in QueryVectors, filter_params \in Filters,
          top_k \in 1..MaxTopK, score_threshold \in Thresholds, fault \in 0..1 :
          SearchVectors(query_vector, filter_params, top_k, score_threshold, fault)
    /\ UNCHANGED process

\* The write path: the collection is created, recreated and filled.
Next ==
    \/ DoCreateCollection
    \/ DoStoreEmbeddings

Spec == Init /\ [][Next]_vars

\* The read path: searches of a collection that an ingestion run has created
\* and filled with n chunks of a corpus (or of no collection at all).
Ingested(c, n) ==
    Run(NoCollection,
        CreatePlan(FALSE, EmbeddingDim, FALSE)
            \o StorePlan(PreparePoints(VectorsOf(Corpus(c, n)),
                                       PayloadsOf(Corpus(c, n))), 1),
        1, 0).backend

SearchInit ==
    /\ process = Connected
    /\ backend \in {NoCollection}
                    \cup {Ingested(c, n) : c \in 1..Len(CorpusPattern), n \in 0..MaxPoints}
    /\ last = [op |-> "init", args |-> NoArgs, pre |-> Summary(backend),
               calls |-> << >>, result |-> << >>, raised |-> None]

SearchNext == DoSearchVectors

SearchSpec == SearchInit /\ [][SearchNext]_vars

----------------------------------------------------------------------------
(* format_context, query_qdrant, get_llm_chain and rag_query *)

Digit(d) == SubSeq("0123456789", d + 1, d + 1)

\* str(n) of a natural number
RECURSIVE ToStr(_)
ToStr(n) == IF n < 10 THEN Digit(n) ELSE ToStr(n \div 10) \o Digit(n % 10)

\* f"{score:.2f}" of a score given in hundredths
FormatScore(score) ==
    LET a == IF score < 0 THEN 0 - score ELSE score
    IN  (IF score < 0 THEN "-" ELSE "")
        \o ToStr(a \div 100) \o "." \o Digit((a \div 10) % 10) \o Digit(a % 10)

\* s.split("/")[-1]: what follows the last "/" of s (all of s without one)
RECURSIVE Basename(_)
Basename(s) ==
    IF \E i \in 1..Len(s) : SubSeq(s, i, i) = "/"
    THEN Basename(SubSeq(s, 1 + (CHOOSE i \in 1..Len(s) : SubSeq(s, i, i) = "/"), Len(s)))
    ELSE s

\* dict.get(key, default)
Get(dict, key, default) == IF key \in DOMAIN dict THEN dict[key] ELSE default

\* sep.join(parts)
RECURSIVE Join(_, _)
Join(parts, sep) ==
    IF parts = << >> THEN ""
    ELSE IF Len(parts) = 1 THEN parts[1]
    ELSE parts[1] \o sep \o Join(Tail(parts), sep)

\* The block format_context builds for the i-th result (i counts from 1).
ContextPart(result, i) ==
    LET source == IF Get(result, "source", "") # ""
                  THEN Basename(Get(result, "source", ""))
                  ELSE "Document " \o ToStr(i)
        product == IF Get(result, "product", "") # ""
                   THEN " [" \o Get(result, "product", "") \o "]"
                   ELSE ""
    IN  "[Source: " \o source \o product \o ", Score: "
        \o FormatScore(Get(result, "score", 0)) \o "]\n"
        \o Get(result, "text", "") \o "\n\n"

\* Variant of FormatContext that puts nothing between the blocks.
FormatContextUnseparated(results) ==
    Join([i \in 1..Len(results) |-> ContextPart(results[i], i)], "")

FormatContext(results) ==
    Join([i \in 1..Len(results) |-> ContextPart(results[i], i)], "\n")

\* embedder.embed_query: the embedding of a query text
EmbedQuery(query_text) ==
    CASE query_text = "How does RCP work?" -> "qa"
      [] query_text = "What is the RIO?" -> "qb"

QueryTexts == {"How does RCP work?", "What is the RIO?"}

HasText(result) == "text" \in DOMAIN result.payload

ContextOf(result) ==
    [text |-> result.payload["text"],
     source |-> Get(result.payload, "source", ""),
     product |-> Get(result.payload, "product", ""),
     score |-> result.score,
     id |-> result.id]

\* The list query_qdrant builds from the results of search_vectors.
QueryContexts(search_results) ==
    LET kept == SelectSeq(search_results, HasText)
    IN  [i \in 1..Len(kept) |-> ContextOf(kept[i])]

NoInformationAnswer ==
    "I couldn't find any relevant information to answer your question about Cyanview systems."

GenerationErrorAnswer == "Error generating answer based on the retrieved context."

GeneratedAnswer == "The RCP is Cyanview's central control interface."

\* The answer generator of a call: LLM_PROVIDER is not "openai"; it is, but
\* OPENAI_API_KEY is empty; the chain runs and answers; the chain runs and
\* raises.
Generators == {"unsupported", "no_key", "answers", "raises"}

\* get_llm_chain: None without a supported provider and a key
GetLLMChain(generator) ==
    IF generator \in {"unsupported", "no_key"} THEN None ELSE Some(generator)

\* The sources of the contexts without repetitions, in first-seen order.
RECURSIVE Dedup(_)
Dedup(seq) ==
    IF seq = << >> THEN << >>
    ELSE LET rest == Dedup(SubSeq(seq, 1, Len(seq) - 1))
             x == seq[Len(seq)]
         IN  IF \E i \in 1..Len(rest) : rest[i] = x THEN rest ELSE Append(rest, x)

\* Variants of Respond: one that asks the generator even without contexts,
\* one that leaves the answer out when the generator raises, one that fills
\* in the error placeholder when there is no generator, one that removes
\* repeated sources.
RespondAlwaysGenerates(query_text, contexts, is_technical, generator) ==
    LET context == FormatContext(contexts)
        sources == [i \in 1..Len(contexts) |->
                       Get(contexts[i], "source", "Unknown source")]
        response == [query |-> query_text, context |-> context, sources |-> sources]
        llm_chain == GetLLMChain(generator)
        run_call == Call("chain.run", [context |-> context, query |-> query_text])
    IN  IF llm_chain = None
        THEN [calls |-> <<Call("get_llm_chain", is_technical)>>, bundle |-> response]
        ELSE [calls |-> <<Call("get_llm_chain", is_technical), run_call>>,
              bundle |-> [query |-> query_text, context |-> context,
                          sources |-> sources,
                          answer |-> IF llm_chain[1] = "raises"
                                     THEN GenerationErrorAnswer
                                     ELSE GeneratedAnswer]]

RespondDropsFailedAnswer(query_text, contexts, is_technical, generator) ==
    IF contexts = << >>
    THEN [calls |-> << >>,
          bundle |-> [query |-> query_text, context |-> "", sources |-> << >>,
                      answer |-> NoInformationAnswer]]
    ELSE LET context == FormatContext(contexts)
             sources == [i \in 1..Len(contexts) |->
                            Get(contexts[i], "source", "Unknown source")]
             response == [query |-> query_text, context |-> context,
                          sources |-> sources]
             llm_chain == GetLLMChain(generator)
             run_call == Call("chain.run", [context |-> context, query |-> query_text])
         IN  IF llm_chain = None
             THEN [calls |-> <<Call("get_llm_chain", is_technical)>>,
                   bundle |-> response]
             ELSE [calls |-> <<Call("get_llm_chain", is_technical), run_call>>,
                   bundle |-> IF llm_chain[1] = "raises"
                              THEN response
                              ELSE [query |-> query_text, context |-> context,
                                    sources |-> sources, answer |-> GeneratedAnswer]]

RespondPlaceholderWithoutGenerator(query_text, contexts, is_technical, generator) ==
    IF contexts = << >>
    THEN [calls |-> << >>,
          bundle |-> [query |-> query_text, context |-> "", sources |-> << >>,
                      answer |-> NoInformationAnswer]]
    ELSE LET context == FormatContext(contexts)
             sources == [i \in 1..Len(contexts) |->
                            Get(contexts[i], "source", "Unknown source")]
             llm_chain == GetLLMChain(generator)
             run_call == Call("chain.run", [context |-> context, query |-> query_text])
         IN  [calls |-> IF llm_chain = None
                        THEN <<Call("get_llm_chain", is_technical)>>
                        ELSE <<Call("get_llm_chain", is_technical), run_call>>,
              bundle |-> [query |-> query_text, context |-> context,
                          sources |-> sources,
                          answer |-> IF llm_chain = None \/ llm_chain[1] = "raises"
                                     THEN GenerationErrorAnswer
                                     ELSE GeneratedAnswer]]

RespondDistinctSources(query_text, contexts, is_technical, generator) ==
    IF contexts = << >>
    THEN [calls |-> << >>,
          bundle |-> [query |-> query_text, context |-> "", sources |-> << >>,
                      answer |-> NoInformationAnswer]]
    ELSE LET context == FormatContext(contexts)
             sources == Dedup([i \in 1..Len(contexts) |->
                                  Get(contexts[i], "source", "Unknown source")])
             response == [query |-> query_text, context |-> context,
                          sources |-> sources]
             llm_chain == GetLLMChain(generator)
             run_call == Call("chain.run", [context |-> context, query |-> query_text])
         IN  IF llm_chain = None
             THEN [calls |-> <<Call("get_llm_chain", is_technical)>>,
                   bundle |-> response]
             ELSE [calls |-> <<Call("get_llm_chain", is_technical), run_call>>,
                   bundle |-> [query |-> query_text, context |-> context,
                               sources |-> sources,
                               answer |-> IF llm_chain[1] = "raises"
                                          THEN GenerationErrorAnswer
                                          ELSE GeneratedAnswer]]

\* What rag_query does once query_qdrant has returned contexts: the bundle it
\* returns and the calls it makes on the way.
Respond(query_text, contexts, is_technical, generator) ==
    IF contexts = << >>
    THEN [calls |-> << >>,
          bundle |-> [query |-> query_text, context |-> "", sources |-> << >>,
                      answer |-> NoInformationAnswer]]
    ELSE LET context == FormatContext(contexts)
             sources == [i \in 1..Len(contexts) |->
                            Get(contexts[i], "source", "Unknown source")]
             response == [query |-> query_text, context |-> context,
                          sources |-> sources]
             llm_chain == GetLLMChain(generator)
             run_call == Call("chain.run", [context |-> context, query |-> query_text])
         IN  IF llm_chain = None
             THEN [calls |-> <<Call("get_llm_chain", is_technical)>>,
                   bundle |-> response]
             ELSE [calls |-> <<Call("get_llm_chain", is_technical), run_call>>,
                   bundle |-> [query |-> query_text, context |-> context,
                               sources |-> sources,
                               answer |-> IF llm_chain[1] = "raises"
                                          THEN GenerationErrorAnswer
                                          ELSE GeneratedAnswer]]

\* A variant of rag_query that sends a failed search a second time.
RagQueryRetrying(query_text, top_k, filter_params, score_threshold, is_technical, generator, fault) ==
    LET query_vector == EmbedQuery(query_text)
        params == SearchParams(query_vector, filter_params, top_k, score_threshold)
        run == Run(backend, <<Call("search", params)>>, 1, fault)
        asked == <<Call("embed_query", query_text)>> \o run.calls
        args == [query_text |-> query_text, top_k |-> top_k,
                 filter_params |-> filter_params,
                 score_threshold |-> score_threshold,
                 is_technical |-> is_technical, generator |-> generator]
    IN  /\ fault <= 1
        /\ backend' = run.backend
        /\ IF run.raised # None
           THEN last' = [op |-> "rag_query", args |-> args, pre |-> Summary(backend),
                         calls |-> asked \o run.calls, found |-> << >>,
                         result |-> << >>, raised |-> run.raised]
           ELSE \E answer \in SearchAnswers(backend.points, params) :
                   LET found == FormatResults(backend.points, params, answer)
                       out == Respond(query_text, QueryContexts(found),
                                      is_technical, generator)
                   IN  last' = [op |-> "rag_query", args |-> args,
                                pre |-> Summary(backend),
                                calls |-> asked \o out.calls, found |-> found,
                                result |-> out.bundle, raised |-> None]

RagQuery(query_text, top_k, filter_params, score_threshold, is_technical, generator, fault) ==
    LET query_vector == EmbedQuery(query_text)
        params == SearchParams(query_vector, filter_params, top_k, score_threshold)
        run == Run(backend, <<Call("search", params)>>, 1, fault)
        asked == <<Call("embed_query", query_text)>> \o run.calls
        args == [query_text |-> query_text, top_k |-> top_k,
                 filter_params |-> filter_params,
                 score_threshold |-> score_threshold,
                 is_technical |-> is_technical, generator |-> generator]
    IN  /\ fault <= 1
        /\ backend' = run.backend
        /\ IF run.raised # None
           THEN last' = [op |-> "rag_query", args |-> args, pre |-> Summary(backend),
                         calls |-> asked, found |-> << >>, result |-> << >>,
                         raised |-> run.raised]
           ELSE \E answer \in SearchAnswers(backend.points, params) :
                   LET found == FormatResults(backend.points, params, answer)
                       out == Respond(query_text, QueryContexts(found),
                                      is_technical, generator)
                   IN  last' = [op |-> "rag_query", args |-> args,
                                pre |-> Summary(backend),
                                calls |-> asked \o out.calls, found |-> found,
                                result |-> out.bundle, raised |-> None]

\* Payloads that store_embeddings accepts but the ingestion script does not
\* build: one without text, one with text only.
PayloadD == ("source" :> "docs/d.txt") @@ ("product" :> "RCP")

PayloadE == ("text" :> "t5")

BarePattern ==
    << [vector |-> "va", payload |-> PayloadD],
       [vector |-> "vb", payload |-> PayloadE],
       [vector |-> "va", payload |-> PayloadA] >>

BareCorpus(n) == [i \in 1..n |-> BarePattern[((i - 1) % Len(BarePattern)) + 1]]

Stored(corpus) ==
    Run(NoCollection,
        CreatePlan(FALSE, EmbeddingDim, FALSE)
            \o StorePlan(PreparePoints(VectorsOf(corpus), PayloadsOf(corpus)), 1),
        1, 0).backend

RagFilters == {EmptyDict, ("type" :> "qa")}

RagThresholds == {Some(70), None}

DoRagQuery ==
    /\ \E query_text \in QueryTexts, top_k \in {1, MaxTopK}, filter_params \in RagFilters,
          score_threshold \in RagThresholds, is_technical \in BOOLEAN,
          generator \in Generators, fault \in 0..1 :
          RagQuery(query_text, top_k, filter_params, score_threshold, is_technical,
                   generator, fault)
    /\ UNCHANGED process

\* The query path: rag_query calls against a collection that was filled by
\* an ingestion run or by a direct store_embeddings call.
QueryInit ==
    /\ process = Connected
    /\ backend \in {NoCollection, Ingested(1, 0), Stored(BareCorpus(MaxPoints))}
                    \cup {Ingested(c, MaxPoints) : c \in 1..Len(CorpusPattern)}
    /\ last = [op |-> "init", args |-> NoArgs, pre |-> Summary(backend),
               calls |-> << >>, result |-> << >>, raised |-> None]

QueryNext == DoRagQuery

QuerySpec == QueryInit /\ [][QueryNext]_vars

----------------------------------------------------------------------------
(* split_documents: the recursive character splitter and the Q&A repair *)

Max(a, b) == IF a > b THEN a ELSE b

\* s.find(sub, start): the first index (from 0) at or after start where sub
\* begins in s, or -1; a negative start counts from the end of s.
Find(s, sub, start) ==
    LET from == IF start < 0 THEN Max(Len(s) + start, 0) ELSE start
        hits == {i \in from..(Len(s) - Len(sub)) : SubSeq(s, i + 1, i + Len(sub)) = sub}
    IN  IF hits = {} THEN 0 - 1 ELSE CHOOSE i \in hits : \A j \in hits : i <= j

\* sub in s
Contains(s, sub) == Find(s, sub, 0) # 0 - 1

Whitespace == {" ", "\n", "\t", "\r"}

\* s.strip()
RECURSIVE Strip(_)
Strip(s) ==
    IF s = "" THEN s
    ELSE IF SubSeq(s, 1, 1) \in Whitespace THEN Strip(SubSeq(s, 2, Len(s)))
    ELSE IF SubSeq(s, Len(s), Len(s)) \in Whitespace THEN Strip(SubSeq(s, 1, Len(s) - 1))
    ELSE s

\* The separators split_documents gives the splitter, in priority order.
Separators ==
    << "\n## ", "\n### ", "\n#### ", "\n- ", "\n* ", "\n1. ", "\n\n", "\n",
       ". ", "? ", "! ", ";", ":", " ", "" >>

NonEmpty(s) == s # ""

\* The pieces of text between the occurrences of a non-empty separator.
RECURSIVE Between(_, _)
Between(text, separator) ==
    LET i == Find(text, separator, 0)
    IN  IF i = 0 - 1 THEN <<text>>
        ELSE <<SubSeq(text, 1, i)>>
             \o Between(SubSeq(text, i + Len(separator) + 1, Len(text)), separator)

SplitDroppingSeparator(text, separator) ==
    SelectSeq(IF separator = "" THEN [i \in 1..Len(text) |-> SubSeq(text, i, i)]
              ELSE Between(text, separator), NonEmpty)

\* The splitter cuts text at a separator and keeps the separator at the start
\* of the piece that follows it; the empty separator cuts text into
\* characters.  Empty pieces are dropped.
SplitKeepingSeparator(text, separator) ==
    LET pieces ==
            IF separator = ""
            THEN [i \in 1..Len(text) |-> SubSeq(text, i, i)]
            ELSE LET raw == Between(text, separator)
                 IN  [k \in 1..Len(raw) |-> IF k = 1 THEN raw[1] ELSE separator \o raw[k]]
    IN  SelectSeq(pieces, NonEmpty)

\* The pieces joined and stripped, appended to docs unless nothing is left.
AppendJoined(docs, pieces) ==
    LET text == Strip(Join(pieces, ""))
    IN  IF text = "" THEN docs ELSE Append(docs, text)

\* The splitter drops pieces from the front of the current chunk until what
\* stays is within the overlap and leaves room for the next piece.
RECURSIVE DropFront(_, _, _, _, _)
DropFront(current, total, next_len, chunk_size, chunk_overlap) ==
    IF total > chunk_overlap \/ (total + next_len > chunk_size /\ total > 0)
    THEN DropFront(Tail(current), total - Len(current[1]), next_len,
                   chunk_size, chunk_overlap)
    ELSE [current |-> current, total |-> total]

\* The splitter merges consecutive pieces into chunks of at most chunk_size
\* characters, starting each chunk with the tail of the one before.
RECURSIVE MergeSplits(_, _, _, _, _, _, _)
MergeSplits(splits, i, docs, current, total, chunk_size, chunk_overlap) ==
    IF i > Len(splits) THEN AppendJoined(docs, current)
    ELSE IF total + Len(splits[i]) > chunk_size /\ current # << >>
    THEN LET kept == DropFront(current, total, Len(splits[i]), chunk_size, chunk_overlap)
         IN  MergeSplits(splits, i + 1, AppendJoined(docs, current),
                         Append(kept.current, splits[i]),
                         kept.total + Len(splits[i]), chunk_size, chunk_overlap)
    ELSE MergeSplits(splits, i + 1, docs, Append(current, splits[i]),
                     total + Len(splits[i]), chunk_size, chunk_overlap)

MergedWithoutLimit(splits, chunk_size, chunk_overlap) == AppendJoined(<< >>, splits)

Merged(splits, chunk_size, chunk_overlap) ==
    IF splits = << >> THEN << >>
    ELSE MergeSplits(splits, 1, << >>, << >>, 0, chunk_size, chunk_overlap)

\* The position in separators of the first one that occurs in text.
FirstSeparator(text, separators) ==
    CHOOSE k \in 1..Len(separators) :
        /\ separators[k] = "" \/ Contains(text, separators[k])
        /\ \A j \in 1..(k - 1) : separators[j] # "" /\ ~Contains(text, separators[j])

\* text_splitter.split_text: split at the first separator present, merge the
\* pieces shorter than chunk_size, split the others with the separators
\* that follow.
RECURSIVE SplitText(_, _, _, _)
RECURSIVE SplitPieces(_, _, _, _, _, _, _)
SplitPieces(splits, i, final, good, rest, chunk_size, chunk_overlap) ==
    IF i > Len(splits)
    THEN final \o Merged(good, chunk_size, chunk_overlap)
    ELSE IF Len(splits[i]) < chunk_size
    THEN SplitPieces(splits, i + 1, final, Append(good, splits[i]), rest,
                     chunk_size, chunk_overlap)
    ELSE SplitPieces(splits, i + 1,
                     final \o Merged(good, chunk_size, chunk_overlap)
                           \o (IF rest = << >> THEN <<splits[i]>>
                               ELSE SplitText(splits[i], rest, chunk_size, chunk_overlap)),
                     << >>, rest, chunk_size, chunk_overlap)

SplitText(text, separators, chunk_size, chunk_overlap) ==
    LET k == FirstSeparator(text, separators)
        rest == IF separators[k] = "" THEN << >>
                ELSE SubSeq(separators, k + 1, Len(separators))
    IN  SplitPieces(SplitKeepingSeparator(text, separators[k]), 1, << >>, << >>,
                    rest, chunk_size, chunk_overlap)

\* The longest answer excerpt the Q&A repair copies.
AnswerExcerptLen == 200

AnswerTextUncapped(full_text, answer_start) ==
    SubSeq(full_text, answer_start + 1, Len(full_text))

\* full_text[answer_start : answer_start + min(200, len(full_text) - answer_start)]
AnswerText(full_text, answer_start) ==
    SubSeq(full_text, answer_start + 1,
           answer_start + Min(AnswerExcerptLen, Len(full_text) - answer_start))

\* The text split_documents emits for one chunk of doc: the splitter's text,
\* or for a question cut off from its answer in a "qa" document the question
\* followed by the start of the answer.
ChunkText(doc, chunk_text) ==
    IF /\ "type" \in DOMAIN doc.metadata
       /\ doc.metadata["type"] = "qa"
       /\ Contains(chunk_text, "Q: ")
       /\ ~Contains(chunk_text, "A: ")
    THEN LET question == SubSeq(chunk_text, Find(chunk_text, "Q: ", 0) + 1, Len(chunk_text))
             full_text == doc.page_content
             answer_start == Find(full_text, "A: ", Find(full_text, question, 0))
         IN  IF answer_start # 0 - 1
             THEN question \o "\n" \o AnswerText(full_text, answer_start) \o "..."
             ELSE chunk_text
    ELSE chunk_text

ChunkMetadataCountsFromOne(metadata, i, doc_chunks) ==
    ("chunk" :> i + 1) @@ ("chunk_total" :> Len(doc_chunks)) @@ metadata

\* The metadata of the chunk at position i (from 0) among the doc_chunks of
\* one document: the document's own, with chunk and chunk_total set.
ChunkMetadata(metadata, i, doc_chunks) ==
    ("chunk" :> i) @@ ("chunk_total" :> Len(doc_chunks)) @@ metadata

\* The chunks emitted for one document, given what the splitter returned.
DocChunks(doc, doc_chunks) ==
    [k \in 1..Len(doc_chunks) |->
        [page_content |-> ChunkText(doc, doc_chunks[k]),
         metadata |-> ChunkMetadata(doc.metadata, k - 1, doc_chunks)]]

\* What the splitter returns for each document of the call.
SplitTexts(documents, chunk_size, chunk_overlap) ==
    [d \in 1..Len(documents) |->
        SplitText(documents[d].page_content, Separators, chunk_size, chunk_overlap)]

RECURSIVE Flatten(_)
Flatten(lists) ==
    IF lists = << >> THEN << >> ELSE Head(lists) \o Flatten(Tail(lists))

SplitDocuments(documents, chunk_size, chunk_overlap) ==
    /\ last.op = "load_documents"
    /\ documents = last.result
    /\ LET doc_chunks == SplitTexts(documents, chunk_size, chunk_overlap)
       IN  last' = [op |-> "split_documents",
                    args |-> [documents |-> documents, chunk_size |-> chunk_size,
                              chunk_overlap |-> chunk_overlap],
                    pre |-> last.pre, calls |-> << >>,
                    splits |-> doc_chunks,
                    result |-> Flatten([d \in 1..Len(documents) |->
                                           DocChunks(documents[d], doc_chunks[d])]),
                    raised |-> None]
    /\ UNCHANGED backend

\* Longest document text, in tokens.
MaxTokens == 4

Tokens == {"z ", "Q: x?", "\n", "A: y"}

RECURSIVE Texts(_)
Texts(n) ==
    IF n = 0 THEN {""}
    ELSE LET shorter == Texts(n - 1)
         IN  shorter \cup {t \o token : t \in shorter, token \in Tokens}

RECURSIVE Repeat(_, _)
Repeat(s, n) == IF n = 0 THEN "" ELSE s \o Repeat(s, n - 1)

LongWord == " yyyyyyyyyyyyyyyyyyyyyyyyyyyyyyyyyyyyyyyyyyyyyyyyy"

\* A question whose answer is longer than the excerpt the repair copies.
LongAnswerText ==
    "Q: x?\nA:" \o Repeat(LongWord, (AnswerExcerptLen \div Len(LongWord)) + 1)

DocumentTypes == {None, Some("qa")}

LoadedDocument(text, type) ==
    [page_content |-> text,
     metadata |-> IF type = None THEN ("source" :> "docs/faq.md")
                  ELSE ("source" :> "docs/faq.md") @@ ("type" :> type[1])]

Guide == [page_content |-> "Intro. More", metadata |-> ("source" :> "docs/guide.md")]

\* The chunk sizes tried on documents: a few characters for the short ones,
\* a little more than a word for the long one.
ChunkSizes(documents) ==
    IF \E d \in 1..Len(documents) : documents[d].page_content = LongAnswerText
    THEN {Len(LongWord) + 10} ELSE {3, 8}

ChunkOverlaps(chunk_size) == {o \in 0..2 : o < chunk_size}

DoSplitDocuments ==
    /\ \E chunk_size \in ChunkSizes(last.result) :
          \E chunk_overlap \in ChunkOverlaps(chunk_size) :
              SplitDocuments(last.result, chunk_size, chunk_overlap)
    /\ UNCHANGED process

\* The ingestion path before embedding: the loaders have returned the
\* documents of one run, and split_documents is called on them.
SplitInit ==
    /\ backend = NoCollection
    /\ process = Connected
    /\ \E text \in Texts(MaxTokens) \cup {LongAnswerText}, type \in DocumentTypes :
         \E documents \in {<<LoadedDocument(text, type)>>,
                           <<Guide, LoadedDocument(text, type)>>} :
            last = [op |-> "load_documents", args |-> NoArgs,
                    pre |-> Summary(NoCollection), calls |-> << >>,
                    result |-> documents, raised |-> None]

SplitNext == DoSplitDocuments

SplitSpec == SplitInit /\ [][SplitNext]_vars

----------------------------------------------------------------------------
(* load_documents: the loaders and the metadata extracted from the content *)

\* The Cyanview products looked for in the content.
CYANVIEW_PRODUCTS ==
    << "RCP", "Remote Control Panel", "CI0", "Camera Interface", "RIO", "Remote I/O",
       "RIO Live", "RIO-Live", "VP4", "Video Processor", "NIO", "Network I/O",
       "GWY", "External Gateway", "CY-RSBM", "CY-CI0BM", "CY-TALLY-BOX" >>

\* The topics looked for in the content.
CYANVIEW_TOPICS ==
    << "Camera Control", "Lens Control", "Tally", "REMI", "Remote Production",
       "Color Correction", "Shading", "Integration", "PTZ", "Gimbal", "IP Control",
       "Serial Control", "SDI Control", "USB Control", "Wireless Control", "API",
       "Firmware", "Configuration" >>

WordAlphabet == "abcdefghijklmnopqrstuvwxyzABCDEFGHIJKLMNOPQRSTUVWXYZ0123456789_"

\* The characters the pattern \w matches.
WordChars == {SubSeq(WordAlphabet, i, i) : i \in 1..Len(WordAlphabet)}

UpperCase == {SubSeq(WordAlphabet, i, i) : i \in 27..52}

WordBoundaryAnywhere(content, i) == TRUE

\* The pattern \b matches between index i - 1 and index i (from 0) of
\* content: exactly one of the two characters is a word character.
WordBoundary(content, i) ==
    LET before == i >= 1 /\ SubSeq(content, i, i) \in WordChars
        after == i < Len(content) /\ SubSeq(content, i + 1, i + 1) \in WordChars
    IN  before # after

\* \b term \b matches at index i (from 0) of content.
MatchesAt(term, content, i) ==
    /\ i + Len(term) <= Len(content)
    /\ SubSeq(content, i + 1, i + Len(term)) = term
    /\ WordBoundary(content, i)
    /\ WordBoundary(content, i + Len(term))

\* len(re.findall(r'\b' + re.escape(term) + r'\b', content)) from index
\* from on: the matches are taken from left to right without overlap.
RECURSIVE CountMatches(_, _, _)
CountMatches(term, content, from) ==
    LET hits == {i \in from..Len(content) : MatchesAt(term, content, i)}
    IN  IF hits = {} THEN 0
        ELSE LET first == CHOOSE i \in hits : \A j \in hits : i <= j
             IN  1 + CountMatches(term, content, first + Len(term))

\* found.sort(key=count, reverse=True): a stable sort, so pair goes behind
\* the pairs of sorted whose count is not smaller.
RECURSIVE InsertByCount(_, _)
InsertByCount(sorted, pair) ==
    IF sorted = << >> THEN <<pair>>
    ELSE IF Head(sorted).count >= pair.count
    THEN <<Head(sorted)>> \o InsertByCount(Tail(sorted), pair)
    ELSE <<pair>> \o sorted

RECURSIVE SortByCount(_)
SortByCount(found) ==
    IF found = << >> THEN << >>
    ELSE InsertByCount(SortByCount(SubSeq(found, 1, Len(found) - 1)), found[Len(found)])

Counted(pair) == pair.count > 0

\* extract_product_references and extract_topics, for their list of terms
ExtractReferences(terms, content) ==
    LET counts == [k \in 1..Len(terms) |->
                      [term |-> terms[k], count |-> CountMatches(terms[k], content, 0)]]
        sorted == SortByCount(SelectSeq(counts, Counted))
    IN  [k \in 1..Len(sorted) |-> sorted[k].term]

\* re.search(r'Q:.*?A:', content, re.DOTALL) or re.search(r'\?\s+[A-Z]', content)
IsQAContent(content) ==
    \/ /\ Find(content, "Q:", 0) # 0 - 1
       /\ Find(content, "A:", Find(content, "Q:", 0) + 2) # 0 - 1
    \/ \E i \in 1..Len(content) :
          /\ SubSeq(content, i, i) = "?"
          /\ \E j \in (i + 2)..Len(content) :
                /\ SubSeq(content, j, j) \in UpperCase
                /\ \A w \in (i + 1)..(j - 1) : SubSeq(content, w, w) \in Whitespace

\* What extract_metadata_from_content returns for the lists it found.
ContentMetadata(products, topics, is_qa) ==
    (IF products # << >>
     THEN ("product" :> products[1]) @@ ("all_products" :> products) ELSE EmptyDict)
    @@ (IF topics # << >>
        THEN ("topic" :> topics[1]) @@ ("all_topics" :> topics) ELSE EmptyDict)
    @@ (IF is_qa THEN ("type" :> "qa") ELSE EmptyDict)

\* load_json_qa on a file holding a list of Q&A items, from item i on (i
\* counts from 1, the index metadata from 0).
RECURSIVE LoadJsonQA(_, _, _)
LoadJsonQA(filepath, data, i) ==
    IF i > Len(data) THEN << >>
    ELSE LET item == data[i]
             keys == DOMAIN item
             answer == IF "answer" \in keys THEN item["answer"]
                       ELSE Get(item, "response", "")
             metadata == ("source" :> filepath) @@ ("type" :> "qa") @@ ("index" :> i - 1)
         IN  (IF "question" \in keys /\ ("answer" \in keys \/ "response" \in keys)
              THEN << [page_content |-> "Q: " \o item["question"] \o "\nA: " \o answer,
                       metadata |-> IF "metadata" \in keys
                                    THEN item["metadata"] @@ metadata ELSE metadata] >>
              ELSE << >>)
             \o LoadJsonQA(filepath, data, i + 1)

\* The documents the loader chosen by the file name returns for one file.
LoaderDocuments(file) ==
    IF file.kind = "json" THEN LoadJsonQA(file.path, file.data, 1)
    ELSE << [page_content |-> file.data, metadata |-> ("source" :> file.path)] >>

\* What load_documents computes from the content of one document.
Extracted(doc) ==
    LET products == ExtractReferences(CYANVIEW_PRODUCTS, doc.page_content)
        topics == ExtractReferences(CYANVIEW_TOPICS, doc.page_content)
    IN  [products |-> products, topics |-> topics,
         metadata |-> ContentMetadata(products, topics, IsQAContent(doc.page_content))]

\* load_documents gives each document of a file its source if it has none,
\* then updates its metadata with what the content gives.
WithContentMetadata(doc, filepath, additional_metadata) ==
    [page_content |-> doc.page_content,
     metadata |-> additional_metadata @@ doc.metadata @@ ("source" :> filepath)]

LoadDocuments(directory) ==
    /\ last.op = "list_directory"
    /\ directory = last.result
    /\ LET loaded == [f \in 1..Len(directory) |-> LoaderDocuments(directory[f])]
           extracted == [f \in 1..Len(directory) |->
                            [k \in 1..Len(loaded[f]) |-> Extracted(loaded[f][k])]]
       IN  last' = [op |-> "load_documents", args |-> [directory |-> directory],
                    pre |-> last.pre, calls |-> << >>,
                    loaded |-> Flatten(loaded),
                    extracted |-> Flatten(extracted),
                    result |-> Flatten([f \in 1..Len(directory) |->
                                  [k \in 1..Len(loaded[f]) |->
                                      WithContentMetadata(loaded[f][k], directory[f].path,
                                                          extracted[f][k].metadata)]]),
                    raised |-> None]
    /\ UNCHANGED backend

\* Longest content, in words.
MaxWords == 3

Words == {"RCP ", "RIO ", "Live ", "RCPs ", "rcp ", "Tally ", "API? "}

RECURSIVE Contents(_)
Contents(n) ==
    IF n = 0 THEN {""}
    ELSE LET shorter == Contents(n - 1)
         IN  shorter \cup {t \o word : t \in shorter, word \in Words}

\* The metadata a Q&A item of a JSON file may carry.
ItemMetadatas ==
    {None,
     Some(("product" :> "RIO") @@ ("topic" :> "Connectivity")),
     Some(("type" :> "faq"))}

QAItem(answer_key, answer, metadata) ==
    ("question" :> "What is it?") @@ (answer_key :> answer)
    @@ (IF metadata = None THEN EmptyDict ELSE ("metadata" :> metadata[1]))

\* The text files of a docs directory.
TextFiles ==
    {[path |-> "docs/notes.txt", kind |-> "txt", data |-> content] :
        content \in Contents(MaxWords)}

\* The JSON files of a docs directory: a list of two items, the first of
\* which has no answer.
JsonFiles ==
    {[path |-> "docs/faq.json", kind |-> "json",
      data |-> <<QAItem("note", "RCP ", None), QAItem(answer_key, answer, metadata)>>] :
        answer_key \in {"answer", "response"}, answer \in Contents(MaxWords),
        metadata \in ItemMetadatas}

DoLoadDocuments == LoadDocuments(last.result) /\ UNCHANGED process

Listed(file) ==
    last = [op |-> "list_directory", args |-> NoArgs, pre |-> Summary(NoCollection),
            calls |-> << >>, result |-> <<file>>, raised |-> None]

\* The ingestion path at its start: the docs directory holds one file.
LoadInit ==
    /\ backend = NoCollection
    /\ process = Connected
    /\ \/ \E file \in TextFiles : Listed(file)
       \/ \E file \in JsonFiles : Listed(file)

LoadNext == DoLoadDocuments

LoadSpec == LoadInit /\ [][LoadNext]_vars

----------------------------------------------------------------------------
(* get_qdrant_client: the client singleton and the threads that ask for it *)

\* Threads of the process that call get_qdrant_client().
MaxThreads == 2

\* Calls of get_qdrant_client() by one thread.
MaxCalls == 2

Threads == 1..MaxThreads

AttributeError == [type |-> "AttributeError", batch |-> None]

\* A thread outside get_qdrant_client(): self is the manager object it
\* initialises, manager the one it was handed.
Outside(calls) ==
    [pc |-> "outside", calls |-> calls, self |-> 0, manager |-> 0, after_failure |-> FALSE]

At(t, pc) == process.threads[t].pc = pc

Moved(t, fields) == [process.threads EXCEPT ![t] = fields @@ process.threads[t]]

\* The record of a completed get_qdrant_client() call of thread t.
Completed(t, result, raised) ==
    [op |-> "get_qdrant_client", args |-> [thread |-> t], pre |-> last.pre,
     calls |-> << >>, result |-> result, raised |-> raised,
     after_failure |-> process.threads[t].after_failure]

\* get_qdrant_client() is called: QdrantClientManager() enters __new__.
CallGetQdrantClient(t) ==
    /\ At(t, "outside")
    /\ process.threads[t].calls < MaxCalls
    /\ process' = [process EXCEPT !.threads =
                      Moved(t, [pc |-> "new", calls |-> process.threads[t].calls + 1,
                                after_failure |-> process.test_failed])]
    /\ UNCHANGED <<backend, last>>

\* __new__: if cls._instance is None
CheckInstance(t) ==
    /\ At(t, "new")
    /\ process' = [process EXCEPT !.threads =
                      Moved(t, [pc |-> IF process.instance = None THEN "create"
                                       ELSE "return"])]
    /\ UNCHANGED <<backend, last>>

\* __new__: cls._instance = super().__new__(cls), an object without a client
CreateInstance(t) ==
    /\ At(t, "create")
    /\ process' = [process EXCEPT
                      !.objects = Append(@, [client |-> None]),
                      !.instance = Some(Len(process.objects) + 1),
                      !.threads = Moved(t, [pc |-> "init",
                                            self |-> Len(process.objects) + 1])]
    /\ UNCHANGED <<backend, last>>

\* _init_client: self.client = QdrantClient(...)
InitClient(t) ==
    /\ At(t, "init")
    /\ process' = [process EXCEPT
                      !.connections = @ + 1,
                      !.objects[process.threads[t].self].client = Some(process.connections + 1),
                      !.threads = Moved(t, [pc |-> "test"])]
    /\ UNCHANGED <<backend, last>>

\* _init_client: self.client.get_collections() answers, or raises and the
\* exception leaves get_qdrant_client().
TestConnection(t, reachable) ==
    /\ At(t, "test")
    /\ IF reachable
       THEN /\ process' = [process EXCEPT !.threads = Moved(t, [pc |-> "return"])]
            /\ UNCHANGED last
       ELSE /\ process' = [process EXCEPT
                              !.test_failed = TRUE,
                              !.threads[t] = Outside(process.threads[t].calls)]
            /\ last' = Completed(t, None, Some(Unreachable))
    /\ UNCHANGED backend

\* __new__: return cls._instance
ReturnInstance(t) ==
    /\ At(t, "return")
    /\ process' = [process EXCEPT !.threads =
                      Moved(t, [pc |-> "get_client", manager |-> process.instance[1]])]
    /\ UNCHANGED <<backend, last>>

\* get_client: return self.client, an AttributeError on an object whose
\* client is not assigned yet.
GetClient(t) ==
    /\ At(t, "get_client")
    /\ LET client == process.objects[process.threads[t].manager].client
       IN  /\ process' = [process EXCEPT
                             !.returned = IF client = None THEN @ ELSE @ \cup {client[1]},
                             !.threads[t] = Outside(process.threads[t].calls)]
           /\ last' = Completed(t, client,
                                IF client = None THEN Some(AttributeError) ELSE None)
    /\ UNCHANGED backend

\* A process at its start: no manager object yet, every thread outside.
ClientInit ==
    /\ backend = NoCollection
    /\ process = [instance |-> None, objects |-> << >>, connections |-> 0,
                  test_failed |-> FALSE, returned |-> {},
                  threads |-> [t \in Threads |-> Outside(0)]]
    /\ last = [op |-> "init", args |-> NoArgs, pre |-> Summary(NoCollection),
               calls |-> << >>, result |-> << >>, raised |-> None]

ClientNext ==
    \E t \in Threads :
        \/ CallGetQdrantClient(t)
        \/ CheckInstance(t)
        \/ CreateInstance(t)
        \/ InitClient(t)
        \/ \E reachable \in BOOLEAN : TestConnection(t, reachable)
        \/ ReturnInstance(t)
        \/ GetClient(t)

ClientSpec == ClientInit /\ [][ClientNext]_vars

----------------------------------------------------------------------------
(* Properties of search_vectors, checked under SearchSpec *)

Searched == last.op = "search_vectors"

SearchReturned == Searched /\ last.raised = None

ResultScores == [i \in 1..Len(last.result) |-> last.result[i].score]

ResultIds == [i \in 1..Len(last.result) |-> last.result[i].id]

\* A stored point passes the caller's filter: every (key, value) pair of
\* filter_params is in its payload.
PassesFilter(id) ==
    \A k \in DOMAIN last.args.filter_params :
        /\ k \in DOMAIN backend.points[id].payload
        /\ backend.points[id].payload[k] = last.args.filter_params[k]

PassesThreshold(id) ==
    \/ last.args.score_threshold = None
    \/ Similarity(last.args.query_vector, backend.points[id].vector)
           >= last.args.score_threshold[1]

QualifyingIds == {id \in DOMAIN backend.points : PassesFilter(id) /\ PassesThreshold(id)}

\* C1: when a score_threshold is supplied, every result search_vectors
\* returns has score >= score_threshold; stored matches scoring 0.95, 0.72
\* and 0.65 searched with threshold 0.7 yield exactly the first two, in order.
C1_ScoreThreshold ==
    (Searched /\ last.args.score_threshold # None) =>
        /\ \A i \in 1..Len(last.result) :
              last.result[i].score >= last.args.score_threshold[1]
        /\ ( /\ last.raised = None
             /\ backend = Ingested(1, 3)
             /\ last.args.query_vector = "qa"
             /\ last.args.filter_params = EmptyDict
             /\ last.args.score_threshold = Some(70)
             /\ last.args.top_k >= 2 )
           => ResultScores = <<95, 72>> /\ ResultIds = <<0, 1>>

C1_Witness ==
    /\ SearchReturned
    /\ last.args.score_threshold = Some(70)
    /\ \E id \in DOMAIN backend.points :
          Similarity(last.args.query_vector, backend.points[id].vector) = 65
    /\ ResultScores = <<95, 72>>

\* C2: search_vectors returns at most top_k results; when more than top_k
\* stored points pass the filter and the threshold it returns exactly top_k
\* of them, and no point left out scores higher than a returned one.
C2_TopKCap ==
    SearchReturned =>
        /\ Len(last.result) <= last.args.top_k
        /\ Cardinality(QualifyingIds) > last.args.top_k =>
              /\ Len(last.result) = last.args.top_k
              /\ \A i \in 1..Len(last.result) : ResultIds[i] \in QualifyingIds
              /\ \A i, j \in 1..Len(last.result) : i # j => ResultIds[i] # ResultIds[j]
              /\ \A id \in QualifyingIds :
                    (\A i \in 1..Len(last.result) : ResultIds[i] # id) =>
                        \A i \in 1..Len(last.result) :
                            ResultScores[i] >=
                                Similarity(last.args.query_vector, backend.points[id].vector)

C2_Witness ==
    /\ SearchReturned
    /\ Cardinality(QualifyingIds) > last.args.top_k
    /\ Len(last.result) = last.args.top_k
    /\ \E id \in QualifyingIds :
          /\ \A i \in 1..Len(last.result) : ResultIds[i] # id
          /\ \A i \in 1..Len(last.result) :
                ResultScores[i] > Similarity(last.args.query_vector, backend.points[id].vector)

DescendingScores ==
    \A i, j \in 1..Len(last.result) : i < j => ResultScores[i] >= ResultScores[j]

TiesByAscendingId ==
    \A i, j \in 1..Len(last.result) :
        (i < j /\ ResultScores[i] = ResultScores[j]) => ResultIds[i] < ResultIds[j]

\* C3 as claimed: the results are in descending similarity, and results of
\* equal similarity are in ascending id order.
C3_OrderWithIdTieBreak == Searched => (DescendingScores /\ TiesByAscendingId)

\* C3: the results of search_vectors are in descending similarity; the
\* order of results of equal similarity is the one the backend answered in.
C3_DescendingOrder == Searched => DescendingScores

C3_Witness ==
    /\ SearchReturned
    /\ Len(last.result) >= 2
    /\ ResultScores[1] > ResultScores[2]

\* C4: a non-empty filter_params is a conjunction of equality conditions:
\* every returned result's payload has payload[key] = value for every pair
\* of the filter, so no stored point failing one condition is returned.
C4_FilterConjunction ==
    Searched =>
        \A i \in 1..Len(last.result) :
            /\ ResultIds[i] \in DOMAIN backend.points
            /\ PassesFilter(ResultIds[i])
            /\ \A k \in DOMAIN last.args.filter_params :
                  /\ k \in DOMAIN last.result[i].payload
                  /\ last.result[i].payload[k] = last.args.filter_params[k]

C4_Witness ==
    /\ SearchReturned
    /\ Cardinality(DOMAIN last.args.filter_params) = 2
    /\ Len(last.result) >= 1
    /\ \E id \in DOMAIN backend.points :
          /\ ~PassesFilter(id)
          /\ \E k \in DOMAIN last.args.filter_params :
                /\ k \in DOMAIN backend.points[id].payload
                /\ backend.points[id].payload[k] = last.args.filter_params[k]

UnindexedFilterKey ==
    Searched /\ \E k \in DOMAIN last.args.filter_params : k \notin IndexedFields

\* C5 as claimed: a filter key that is not an indexed payload field makes
\* search_vectors fail, without running the search and returning results
\* (any exception raised is taken for the ConfigurationError).
C5_UnindexedKeyRejected ==
    UnindexedFilterKey =>
        /\ last.raised # None
        /\ last.result = << >>

\* C5: search_vectors does not check filter keys against the indexed fields:
\* a key outside (product, type) is sent to the backend as one more equality
\* condition, no ConfigurationError is raised, and the search returns the
\* best top_k of the points that meet every condition.
C5_UnindexedKeyPassedThrough ==
    UnindexedFilterKey =>
        /\ Len(last.calls) = 1
        /\ last.calls[1].call = "search"
        /\ last.calls[1].arg.query_filter # None
        /\ {c.key : c \in last.calls[1].arg.query_filter[1].must}
              = DOMAIN last.args.filter_params
        /\ last.raised # None => last.raised[1].type # "ConfigurationError"
        /\ last.raised = None =>
              /\ \A i \in 1..Len(last.result) : PassesFilter(ResultIds[i])
              /\ Len(last.result) = Min(last.args.top_k, Cardinality(QualifyingIds))

C5_Witness ==
    /\ SearchReturned
    /\ UnindexedFilterKey
    /\ Len(last.result) >= 1
    /\ \E id \in DOMAIN backend.points : ~PassesFilter(id) /\ PassesThreshold(id)

----------------------------------------------------------------------------
(* Properties of create_collection and store_embeddings, checked under Spec *)

Created == last.op = "create_collection"

OnlyListedCollections ==
    \A i \in 1..Len(last.calls) : last.calls[i].call = "get_collections"

C7_RecreateReplaces ==
    (Created /\ last.pre.exists /\ last.args.recreate /\ last.raised = None) =>
        /\ backend.exists
        /\ backend.size = last.args.vector_size
        /\ DOMAIN backend.points = {}

C7_Witness ==
    /\ Created
    /\ last.pre.exists
    /\ last.args.recreate
    /\ last.raised = None
    /\ last.pre.ids # {}
    /\ last.args.vector_size # last.pre.size
    /\ backend.size = last.args.vector_size

StoreFailedAtUpsert ==
    /\ last.op = "store_embeddings"
    /\ last.raised # None
    /\ last.calls[Len(last.calls)].call = "upsert"

\* Zero-based index of the batch whose upsert raised.
FailedBatch == Len(last.calls) - 1

StoredInput == PreparePoints(last.args.vectors, last.args.payloads)

\* C9: store_embeddings is not transactional: when the upsert of batch k
\* fails, the points of batches 0..k-1 are in the collection, the failure is
\* raised to the caller, and the requests issued are the upserts of batches
\* 0..k and nothing after.
C9_NotTransactional ==
    StoreFailedAtUpsert =>
        /\ \A i \in 1..Min(FailedBatch * last.args.batch_size, Len(StoredInput)) :
              /\ (i - 1) \in DOMAIN backend.points
              /\ backend.points[i - 1] = [vector |-> StoredInput[i].vector,
                                          payload |-> StoredInput[i].payload]
        /\ last.raised # None
        /\ FailedBatch < NumBatches(Len(StoredInput), last.args.batch_size)
        /\ \A j \in 1..Len(last.calls) :
              /\ last.calls[j].call = "upsert"
              /\ last.calls[j].arg = Batch(StoredInput, last.args.batch_size, j - 1)

C9_Witness ==
    /\ StoreFailedAtUpsert
    /\ FailedBatch >= 1
    /\ FailedBatch + 1 < NumBatches(Len(StoredInput), last.args.batch_size)
    /\ last.pre.ids = {}
    /\ DOMAIN backend.points = 0..(FailedBatch * last.args.batch_size - 1)

----------------------------------------------------------------------------
(* Properties of rag_query, checked under QuerySpec *)

Queried == last.op = "rag_query"

QueryReturned == Queried /\ last.raised = None

IsTexted(result) == "text" \in DOMAIN result.payload

\* The search results that query_qdrant keeps: those with a text.
TextedFound == SelectSeq(last.found, IsTexted)

CalledNames == {last.calls[i].call : i \in 1..Len(last.calls)}

SourceOfPayload(payload) == IF "source" \in DOMAIN payload THEN payload["source"] ELSE ""

ProductPart(product) == IF product # "" THEN " [" \o product \o "]" ELSE ""

\* The block of a result as the claim writes it.
ClaimedBlock(result) ==
    "[Source: " \o Basename(SourceOfPayload(result.payload))
    \o ProductPart(Get(result.payload, "product", ""))
    \o ", Score: " \o FormatScore(result.score) \o "]"
    \o "\n" \o result.payload["text"] \o "\n\n"

\* The block of the i-th result: as claimed, but "Document <i>" stands for
\* the source of a result that has none.
NumberedBlock(result, i) ==
    "[Source: "
    \o (IF SourceOfPayload(result.payload) = ""
        THEN "Document " \o ToStr(i)
        ELSE Basename(SourceOfPayload(result.payload)))
    \o ProductPart(Get(result.payload, "product", ""))
    \o ", Score: " \o FormatScore(result.score) \o "]"
    \o "\n" \o result.payload["text"] \o "\n\n"

RECURSIVE ClaimedContext(_, _)
ClaimedContext(results, i) ==
    IF i > Len(results) THEN ""
    ELSE ClaimedBlock(results[i]) \o ClaimedContext(results, i + 1)

RECURSIVE NewlineJoinedContext(_, _)
NewlineJoinedContext(results, i) ==
    IF i > Len(results) THEN ""
    ELSE NumberedBlock(results[i], i)
         \o (IF i < Len(results) THEN "\n" ELSE "")
         \o NewlineJoinedContext(results, i + 1)

\* C11: when retrieval yields zero results, rag_query does not raise and
\* returns the bundle of the original query with sources = [], context = ""
\* and a non-empty canned answer, without calling get_llm_chain or chain.run.
C11_EmptyResultBundle ==
    (Queried /\ TextedFound = << >>
        /\ (last.raised # None => last.calls[Len(last.calls)].call # "search")) =>
        /\ last.raised = None
        /\ DOMAIN last.result = {"query", "context", "sources", "answer"}
        /\ last.result.query = last.args.query_text
        /\ last.result.sources = << >>
        /\ last.result.context = ""
        /\ last.result.answer = NoInformationAnswer
        /\ last.result.answer # ""
        /\ CalledNames \cap {"get_llm_chain", "chain.run"} = {}

C11_Witness ==
    /\ QueryReturned
    /\ last.found = << >>
    /\ DOMAIN backend.points # {}
    /\ last.args.generator = "answers"
    /\ last.result.sources = << >>

\* C12 as claimed: a failure of the vector search during rag_query is not
\* raised to the caller; a search that the backend rejects because the
\* collection is missing gives a bundle with zero sources and empty context.
C12_SearchFailureAbsorbed ==
    Queried =>
        /\ last.raised = None
        /\ ~last.pre.exists =>
              /\ last.result.sources = << >>
              /\ last.result.context = ""

\* C13: when results are non-empty and the answer generator raises,
\* rag_query does not raise; the bundle has the query, the context and the
\* sources of the retrieved results and the error placeholder as answer.
C13_GeneratorFailureAbsorbed ==
    (Queried /\ TextedFound # << >> /\ last.args.generator = "raises") =>
        /\ last.raised = None
        /\ DOMAIN last.result = {"query", "context", "sources", "answer"}
        /\ last.result.query = last.args.query_text
        /\ last.result.answer = GenerationErrorAnswer
        /\ last.result.sources =
              [i \in 1..Len(TextedFound) |-> SourceOfPayload(TextedFound[i].payload)]
        /\ last.calls[Len(last.calls)] =
              Call("chain.run", [context |-> last.result.context,
                                 query |-> last.args.query_text])
        /\ last.result.context = NewlineJoinedContext(TextedFound, 1)

C13_Witness ==
    /\ QueryReturned
    /\ last.args.generator = "raises"
    /\ Len(TextedFound) >= 2
    /\ last.result.answer = GenerationErrorAnswer

GeneratorUnavailable ==
    Queried /\ TextedFound # << >> /\ last.args.generator \in {"unsupported", "no_key"}

\* C14 as claimed: with non-empty results and get_llm_chain returning None,
\* the bundle has an answer field holding an error placeholder string.
C14_PlaceholderWithoutGenerator ==
    GeneratorUnavailable =>
        /\ "answer" \in DOMAIN last.result
        /\ last.result.answer # ""

\* C14: with non-empty results and get_llm_chain returning None, rag_query
\* returns the bundle of query, context and sources without an answer field;
\* chain.run is not called.
C14_NoAnswerWithoutGenerator ==
    GeneratorUnavailable =>
        /\ last.raised = None
        /\ DOMAIN last.result = {"query", "context", "sources"}
        /\ "get_llm_chain" \in CalledNames
        /\ "chain.run" \notin CalledNames

C14_Witness ==
    /\ GeneratorUnavailable
    /\ last.args.generator = "no_key"
    /\ "answer" \notin DOMAIN last.result
    /\ Len(last.result.sources) >= 1

C16_ContextIsPlainConcatenation ==
    (QueryReturned /\ TextedFound # << >>) =>
        last.result.context = ClaimedContext(TextedFound, 1)

\* C16: for non-empty results r1..rn the context is the blocks in result
\* order with one newline inserted between consecutive blocks and nothing
\* after the last; a block is the header line, a newline, the text and two
\* newlines; the header names the last path component of the source, or
\* "Document <i>" for the i-th result when it has no source, then the
\* product in brackets when there is one, then the score with two decimals.
C16_ContextJoinsBlocksWithNewline ==
    (QueryReturned /\ TextedFound # << >>) =>
        last.result.context = NewlineJoinedContext(TextedFound, 1)

C16_Witness ==
    /\ QueryReturned
    /\ Len(TextedFound) = 2
    /\ Get(TextedFound[1].payload, "product", "") # ""
    /\ last.result.context # ClaimedContext(TextedFound, 1)

----------------------------------------------------------------------------
(* Properties of split_documents, checked under SplitSpec *)

Split == last.op = "split_documents"

\* The chunks emitted for the d-th document of the call, in emission order
\* (the documents of one call have distinct sources).
EmittedFor(d) ==
    SelectSeq(last.result,
              LAMBDA c : c.metadata["source"] = last.args.documents[d].metadata["source"])

\* C17: for every document passed to split_documents, the chunks emitted for
\* it all carry chunk_total = the number of chunks of that document, and
\* their chunk values are 0, 1, ..., chunk_total - 1 in emission order; the
\* numbering starts again for each document of the call.
C17_ChunkNumbering ==
    Split =>
        \A d \in 1..Len(last.args.documents) :
            LET chunks == EmittedFor(d)
            IN  /\ Len(chunks) = Len(last.splits[d])
                /\ \A k \in 1..Len(chunks) :
                       /\ chunks[k].metadata["chunk"] = k - 1
                       /\ chunks[k].metadata["chunk_total"] = Len(chunks)

\* Two documents in one call, each split into several chunks, a different
\* number for each.
C17_Witness ==
    /\ Split
    /\ Len(last.args.documents) = 2
    /\ Len(EmittedFor(1)) >= 2
    /\ Len(EmittedFor(2)) >= 2
    /\ Len(EmittedFor(1)) # Len(EmittedFor(2))

\* The positions of text that can be skipped from a position of from without
\* passing a character outside gaps.
Skipping(text, from, gaps) ==
    {q \in 0..Len(text) :
        \E p \in from : p <= q /\ \A j \in (p + 1)..q : SubSeq(text, j, j) \in gaps}

\* The positions of text up to which the first k chunks can cover it: each
\* chunk is a segment of text that starts at or before the position covered
\* so far (the part before that position is the chunk's overlap) after
\* skipping characters of gaps only.
RECURSIVE CoveredUpTo(_, _, _, _)
CoveredUpTo(chunks, k, text, gaps) ==
    IF k = 0 THEN {0}
    ELSE LET from == Skipping(text, CoveredUpTo(chunks, k - 1, text, gaps), gaps)
             c == chunks[k]
         IN  {q \in 0..Len(text) :
                 /\ q >= Len(c)
                 /\ SubSeq(text, q - Len(c) + 1, q) = c
                 /\ \E p \in from : q - Len(c) <= p /\ p <= q}

\* The non-overlapping portions of chunks, in order, make up text, apart
\* from characters of gaps between them.
Reconstructs(chunks, text, gaps) ==
    Len(text) \in Skipping(text, CoveredUpTo(chunks, Len(chunks), text, gaps), gaps)

EmittedTexts(d) == [k \in 1..Len(EmittedFor(d)) |-> EmittedFor(d)[k].page_content]

IsQA(doc) == "type" \in DOMAIN doc.metadata /\ doc.metadata["type"] = "qa"

OccursAt(s, sub, i) ==
    /\ i >= 0
    /\ i + Len(sub) <= Len(s)
    /\ SubSeq(s, i + 1, i + Len(sub)) = sub

Occurs(s, sub) == \E i \in 0..Len(s) : OccursAt(s, sub, i)

\* The first index (from 0) at or after from where sub begins in s.
FirstAt(s, sub, from) ==
    CHOOSE i \in from..Len(s) :
        OccursAt(s, sub, i) /\ \A j \in from..(i - 1) : ~OccursAt(s, sub, j)

\* A chunk of the splitter holding a question without its answer.
CutQuestion(chunk) == Occurs(chunk, "Q: ") /\ ~Occurs(chunk, "A: ")

\* The question of such a chunk: its text from the first "Q: " on.
QuestionOf(chunk) == SubSeq(chunk, FirstAt(chunk, "Q: ", 0) + 1, Len(chunk))

\* The question is followed by an answer marker in text: "A: " begins at or
\* after the place where the question's text first occurs.
AnswerFollows(text, question) ==
    /\ Occurs(text, question)
    /\ \E a \in FirstAt(text, question, 0)..Len(text) : OccursAt(text, "A: ", a)

FirstAnswerAfter(text, question) == FirstAt(text, "A: ", FirstAt(text, question, 0))

\* emitted holds the n characters of text from index a, then an ellipsis.
HoldsExcerpt(emitted, text, a, n) == Occurs(emitted, SubSeq(text, a + 1, a + n) \o "...")

\* The chunks of the splitter that the claims on the Q&A repair speak of:
\* pairs <<d, k>> of a document of type "qa" and one of its chunks.
QAChunks ==
    {dk \in (1..Len(last.args.documents)) \X (1..Len(last.result)) :
        /\ IsQA(last.args.documents[dk[1]])
        /\ dk[2] <= Len(last.splits[dk[1]])}

\* C19: for a document of type "qa", every chunk of the splitter that holds
\* "Q: " but not "A: " and whose question is followed by "A: " in the
\* original text is emitted holding an excerpt of the original text that
\* starts at the first "A: " after the question (hence with "A: "), is at
\* most 200 characters long, and is followed by "...".  The question is
\* located where its text first occurs in the original.
C19_RepairAddsAnswerExcerpt ==
    Split =>
        \A dk \in QAChunks :
            LET text == last.args.documents[dk[1]].page_content
                chunk == last.splits[dk[1]][dk[2]]
                emitted == EmittedFor(dk[1])[dk[2]].page_content
            IN  (CutQuestion(chunk) /\ AnswerFollows(text, QuestionOf(chunk))) =>
                    LET a == FirstAnswerAfter(text, QuestionOf(chunk))
                    IN  \E n \in 3..Min(AnswerExcerptLen, Len(text) - a) :
                            HoldsExcerpt(emitted, text, a, n)

\* A question cut off from an answer of more than 200 characters: the
\* emitted chunk holds the first 200 of them and the ellipsis.
C19_Witness ==
    /\ Split
    /\ \E dk \in QAChunks :
          LET text == last.args.documents[dk[1]].page_content
              chunk == last.splits[dk[1]][dk[2]]
              emitted == EmittedFor(dk[1])[dk[2]].page_content
          IN  /\ CutQuestion(chunk)
              /\ AnswerFollows(text, QuestionOf(chunk))
              /\ Len(text) - FirstAnswerAfter(text, QuestionOf(chunk)) > AnswerExcerptLen
              /\ HoldsExcerpt(emitted, text, FirstAnswerAfter(text, QuestionOf(chunk)),
                              AnswerExcerptLen)

\* chunk meets the condition of the Q&A repair in a document of type "qa".
Repairable(text, chunk) == CutQuestion(chunk) /\ AnswerFollows(text, QuestionOf(chunk))

BeginsWith(s, prefix) == OccursAt(s, prefix, 0)

\* C20: the Q&A repair only appends: an emitted chunk that was repaired
\* begins with the complete text the splitter produced for it, text before
\* the first "Q: " included, and every other chunk is emitted with the
\* splitter's text unchanged.
C20_RepairOnlyAppends ==
    Split =>
        \A d \in 1..Len(last.args.documents) :
            \A k \in 1..Len(last.splits[d]) :
                LET doc == last.args.documents[d]
                    chunk == last.splits[d][k]
                    emitted == EmittedFor(d)[k].page_content
                IN  IF IsQA(doc) /\ Repairable(doc.page_content, chunk)
                    THEN BeginsWith(emitted, chunk)
                    ELSE emitted = chunk

----------------------------------------------------------------------------
(* Properties of load_documents, checked under LoadSpec *)

Loaded == last.op = "load_documents"

\* The number of places where term stands in content as a whole word, in
\* the same case: no word character before it and none after it.
WholeWordCount(term, content) ==
    Cardinality({i \in 0..Len(content) :
        /\ OccursAt(content, term, i)
        /\ i = 0 \/ SubSeq(content, i, i) \notin WordChars
        /\ \/ i + Len(term) = Len(content)
           \/ SubSeq(content, i + Len(term) + 1, i + Len(term) + 1) \notin WordChars})

\* The position of term in the reference list terms.
PositionIn(terms, term) == CHOOSE k \in 1..Len(terms) : terms[k] = term

\* list holds exactly the terms that occur in content, most frequent first,
\* terms of equal count in the order of the reference list.
RankedReferences(list, terms, content) ==
    /\ \A k \in 1..Len(list) :
          /\ \E r \in 1..Len(terms) : terms[r] = list[k]
          /\ WholeWordCount(list[k], content) > 0
    /\ \A r \in 1..Len(terms) :
          WholeWordCount(terms[r], content) > 0 => \E k \in 1..Len(list) : list[k] = terms[r]
    /\ \A j, k \in 1..Len(list) :
          j < k =>
              \/ WholeWordCount(list[j], content) > WholeWordCount(list[k], content)
              \/ /\ WholeWordCount(list[j], content) = WholeWordCount(list[k], content)
                 /\ PositionIn(terms, list[j]) < PositionIn(terms, list[k])

\* The keys first and all are emitted for a non-empty list only, first
\* being its first element.
PrimaryOf(metadata, first, all, list) ==
    /\ first \in DOMAIN metadata <=> list # << >>
    /\ all \in DOMAIN metadata <=> list # << >>
    /\ list # << >> => metadata[first] = list[1] /\ metadata[all] = list

\* C22: extract_product_references and extract_topics return exactly the
\* reference-list terms with a non-zero whole-word, case-sensitive count in
\* the content, by descending count, equal counts in reference-list order;
\* product / topic equal the first element of all_products / all_topics and
\* are emitted if and only if that list is non-empty.
C22_RankedReferences ==
    Loaded =>
        \A k \in 1..Len(last.loaded) :
            LET content == last.loaded[k].page_content
                found == last.extracted[k]
            IN  /\ RankedReferences(found.products, CYANVIEW_PRODUCTS, content)
                /\ RankedReferences(found.topics, CYANVIEW_TOPICS, content)
                /\ PrimaryOf(found.metadata, "product", "all_products", found.products)
                /\ PrimaryOf(found.metadata, "topic", "all_topics", found.topics)

\* A content that mentions a later product of the reference list more
\* often than an earlier one.
C22_Witness ==
    /\ Loaded
    /\ \E k \in 1..Len(last.loaded) :
          LET products == last.extracted[k].products
          IN  /\ Len(products) = 2
              /\ PositionIn(CYANVIEW_PRODUCTS, products[1])
                    > PositionIn(CYANVIEW_PRODUCTS, products[2])
              /\ last.extracted[k].metadata["product"] = products[1]
              /\ last.extracted[k].metadata["all_products"] = products

\* C23: a metadata key that a document has when it comes out of its loader
\* (such as product, topic or type set by load_json_qa from the JSON item)
\* still has the loader's value after load_documents, whatever the content
\* mentions.
C23_LoaderMetadataKept ==
    Loaded =>
        \A k \in 1..Len(last.loaded) :
            \A key \in DOMAIN last.loaded[k].metadata :
                /\ key \in DOMAIN last.result[k].metadata
                /\ last.result[k].metadata[key] = last.loaded[k].metadata[key]

----------------------------------------------------------------------------
(* Properties of get_qdrant_client, checked under ClientSpec *)

ClientCalled == last.op = "get_qdrant_client"

\* C24: once the connectivity test of the client initialisation has failed,
\* every get_qdrant_client() call that begins afterwards in the process
\* raises instead of returning a client.
C24_StartupFailureFatal ==
    (ClientCalled /\ last.after_failure) => last.raised # None

\* C28: for any interleaving of concurrent first get_qdrant_client() calls,
\* _init_client runs at most once (one client is constructed) and every
\* caller receives the same client object.
C28_SingleClient ==
    /\ process.connections <= 1
    /\ Cardinality(process.returned) <= 1

----------------------------------------------------------------------------
(* Properties of the write path, checked under Spec *)

StoreCompleted == last.op = "store_embeddings" /\ last.raised = None

\* C25: after a store_embeddings call with n (vector, payload) pairs has
\* completed, the points of the collection are exactly id i -> (vectors[i],
\* payloads[i]) for 0 <= i < n: no point of an earlier ingestion remains,
\* whether or not the collection was recreated.
C25_PointSetIsInput ==
    StoreCompleted =>
        /\ DOMAIN backend.points = 0..(Len(StoredInput) - 1)
        /\ \A i \in 1..Len(StoredInput) :
              backend.points[i - 1] = [vector |-> StoredInput[i].vector,
                                       payload |-> StoredInput[i].payload]

IsUpsert(request) == request.call = "upsert"

\* The batches a store_embeddings call has sent, in the order it sent them.
BatchesOf(call) ==
    LET upserts == SelectSeq(call.calls, IsUpsert)
    IN  [k \in 1..Len(upserts) |-> upserts[k].arg]

\* Every point is in exactly one batch, no batch has more than batch_size
\* points or a point that is not of the input, and the id of a point is its
\* position in the input.
PartitionsInput(batches, points, batch_size) ==
    /\ \A k \in 1..Len(batches) :
          /\ Len(batches[k]) <= batch_size
          /\ \A j \in 1..Len(batches[k]) : \E i \in 1..Len(points) : batches[k][j] = points[i]
    /\ \A i \in 1..Len(points) :
          /\ points[i].id = i - 1
          /\ Cardinality({kj \in (1..Len(batches)) \X (1..batch_size) :
                             /\ kj[2] <= Len(batches[kj[1]])
                             /\ batches[kj[1]][kj[2]] = points[i]}) = 1

\* The orders in which n writes can reach the backend.
Orders(n) == {order \in [1..n -> 1..n] : \A a, b \in 1..n : a # b => order[a] # order[b]}

\* The points of the collection after the writes from the i-th of order on.
RECURSIVE WrittenInOrder(_, _, _, _)
WrittenInOrder(points, writes, order, i) ==
    IF i > Len(writes) THEN points
    ELSE WrittenInOrder(UpsertPoints(points, <<writes[order[i]]>>), writes, order, i + 1)

\* C26: within one store_embeddings call the batches partition the points,
\* each batch has at most batch_size points, the id of a point is its input
\* position, and the batches leave the same collection whatever the order
\* in which they, or under interleaving their single points, are written.
C26_BatchesIndependent ==
    [][(last'.op = "store_embeddings" /\ last'.raised = None) =>
          LET points == PreparePoints(last'.args.vectors, last'.args.payloads)
              batches == BatchesOf(last')
          IN  /\ PartitionsInput(batches, points, last'.args.batch_size)
              /\ \A order \in Orders(Len(points)) :
                    WrittenInOrder(backend.points, Flatten(batches), order, 1)
                        = backend'.points]_vars

\* A completed call with a full batch and a shorter last batch, into a
\* collection that held points already.
C26_Witness ==
    /\ StoreCompleted
    /\ Len(BatchesOf(last)) >= 2
    /\ Len(BatchesOf(last)[1]) = last.args.batch_size
    /\ Len(BatchesOf(last)[Len(BatchesOf(last))]) < last.args.batch_size
    /\ last.pre.ids # {}

----------------------------------------------------------------------------
\* Properties of the calls rag_query makes, checked under QuerySpec.

CallsNamed(name) ==
    LET Named(request) == request.call = name
    IN  SelectSeq(last.calls, Named)

\* The search request carries the caller's top_k, filter_params and
\* score_threshold and the vector of the caller's query_text.
CarriesCallerArguments(params, args) ==
    /\ params.query_vector = EmbedQuery(args.query_text)
    /\ params.limit = args.top_k
    /\ params.score_threshold = args.score_threshold
    /\ IF args.filter_params = EmptyDict
       THEN params.query_filter = None
       ELSE /\ params.query_filter # None
            /\ params.query_filter[1].must
                  = {[key |-> k, value |-> args.filter_params[k]] :
                        k \in DOMAIN args.filter_params}

\* C27: a rag_query call, whether it returns or raises, embeds the caller's
\* query text exactly once, sends exactly one search, with that vector and
\* the caller's top_k, filter_params and score_threshold unchanged, and runs
\* the answer generator at most once.
C27_NoRetries ==
    Queried =>
        /\ Len(CallsNamed("embed_query")) = 1
        /\ CallsNamed("embed_query")[1].arg = last.args.query_text
        /\ Len(CallsNamed("search")) = 1
        /\ CarriesCallerArguments(CallsNamed("search")[1].arg, last.args)
        /\ Len(CallsNamed("chain.run")) <= 1

\* A call with the default score_threshold (0.7) and no filter whose search
\* failed: the one search request it sent has threshold 0.7 and no filter.
C27_Witness ==
    /\ Queried
    /\ last.raised # None
    /\ last.args.score_threshold = Some(70)
    /\ last.args.filter_params = EmptyDict
    /\ CallsNamed("search")[1].arg.score_threshold = Some(70)
    /\ CallsNamed("search")[1].arg.query_filter = None


----------------------------------------------------------------------------
\* Properties of create_collection over a history of calls, checked under Spec.

CreateReturned == last.op = "create_collection" /\ last.raised = None

\* C29: whenever create_collection(vector_size = d) returns without raising,
\* after any earlier creates, recreates, failed creates and upserts, the
\* collection exists with vector dimension d, cosine distance, and indexes
\* on both the product and the type payload field.
C29_CreateEstablishesConfiguration ==
    CreateReturned =>
        /\ backend.exists
        /\ backend.size = last.args.vector_size
        /\ backend.distance = "Cosine"
        /\ backend.indexes = {"product", "type"}


RecreateFailed ==
    /\ last'.op = "create_collection"
    /\ last'.args.recreate
    /\ last'.raised # None

\* C30: a failed recreation loses no data: when create_collection with
\* recreate=True raises, every point that was in the collection before the
\* call is still in it, unchanged.
C30_FailedRecreateKeepsPoints ==
    [][RecreateFailed =>
          \A id \in DOMAIN backend.points :
             /\ id \in DOMAIN backend'.points
             /\ backend'.points[id] = backend.points[id]]_vars

====
